---- MODULE Spec2Model ----
(***************************************************************************)
(* Model of the llm-backend ticket analytics service:                      *)
(*   src/llm_sql.py   natural language -> SQL (rule based) and explanation *)
(*   src/database.py  per-request database session (get_db)                *)
(*   src/app.py       the /nl-query handler (nl_query)                     *)
(*                                                                         *)
(* Python strings are TLA+ strings; TLC evaluates Len, SubSeq and \o on    *)
(* them, so substring tests, lower-casing, splitting and regex scanning    *)
(* are computed character by character as the Python code does.            *)
(***************************************************************************)
EXTENDS Integers, Sequences, FiniteSets, TLC

(***************************************************************************)
(* Bounds of the model.                                                    *)
(***************************************************************************)
\* longest composed question, in vocabulary words
MaxWords == 2
\* longest composed suggester output, in vocabulary pieces
MaxPieces == 3
\* number of concurrent requests served by the process
MaxRequests == 2

(***************************************************************************)
(* Python str primitives.                                                  *)
(***************************************************************************)
UpperLetters == "ABCDEFGHIJKLMNOPQRSTUVWXYZ"
LowerLetters == "abcdefghijklmnopqrstuvwxyz"
Digits == "0123456789"

CharAt(s, i) == SubSeq(s, i, i)

\* the characters of a string, as a set
CharsOf(s) == {CharAt(s, i) : i \in 1..Len(s)}

UpperSet == CharsOf(UpperLetters)
LowerSet == CharsOf(LowerLetters)
DigitSet == CharsOf(Digits)

\* upper-case letter -> lower-case letter, and back
ToLower == [c \in UpperSet |->
              CharAt(LowerLetters, CHOOSE i \in 1..Len(UpperLetters) : CharAt(UpperLetters, i) = c)]
ToUpper == [c \in LowerSet |->
              CharAt(UpperLetters, CHOOSE i \in 1..Len(LowerLetters) : CharAt(LowerLetters, i) = c)]

\* t in s (v is the value of s, taken once)
Contains(s, t) ==
    \E v \in {s} : \E i \in 1..(Len(v) - Len(t) + 1) : SubSeq(v, i, i + Len(t) - 1) = t

\* s.startswith(t)
StartsWith(s, t) == Len(t) <= Len(s) /\ SubSeq(s, 1, Len(t)) = t

\* s.endswith(t)
EndsWith(s, t) == Len(t) <= Len(s) /\ SubSeq(s, Len(s) - Len(t) + 1, Len(s)) = t

LowerChar(c) == IF c \in UpperSet THEN ToLower[c] ELSE c

UpperChar(c) == IF c \in LowerSet THEN ToUpper[c] ELSE c

RECURSIVE LowerRange(_, _, _)
\* the characters lo..hi of s, each lower-cased (the range is halved to
\* keep the recursion shallow)
LowerRange(s, lo, hi) ==
    IF lo > hi THEN ""
    ELSE IF lo = hi THEN LowerChar(CharAt(s, lo))
    ELSE CHOOSE out \in {LowerRange(s, lo, mid) \o LowerRange(s, mid + 1, hi) :
                            mid \in {(lo + hi) \div 2}} : TRUE

\* s.lower() (v is the value of s, taken once)
Lower(s) == CHOOSE out \in {LowerRange(v, 1, Len(v)) : v \in {s}} : TRUE

\* s.capitalize(): first character upper-cased, the rest lower-cased
Capitalize(s) ==
    CHOOSE out \in {IF v = "" THEN ""
                    ELSE UpperChar(CharAt(v, 1)) \o LowerRange(v, 2, Len(v)) : v \in {s}} : TRUE

IsSpace(c) == c \in {" ", "\t", "\n", "\r"}

RECURSIVE LStrip(_)
LStrip(s) ==
    IF s # "" /\ IsSpace(CharAt(s, 1)) THEN LStrip(SubSeq(s, 2, Len(s))) ELSE s

RECURSIVE RStrip(_)
RStrip(s) ==
    IF s # "" /\ IsSpace(CharAt(s, Len(s))) THEN RStrip(SubSeq(s, 1, Len(s) - 1)) ELSE s

\* s.strip()
Strip(s) == CHOOSE out \in {RStrip(LStrip(v)) : v \in {s}} : TRUE

RECURSIVE SplitFrom(_, _, _, _)
\* the parts of s from position i on, cut at every occurrence of the
\* one-character separator sep; the current part starts at position start
SplitFrom(s, sep, start, i) ==
    IF i > Len(s) THEN <<SubSeq(s, start, Len(s))>>
    ELSE IF CharAt(s, i) = sep
         THEN <<SubSeq(s, start, i - 1)>> \o SplitFrom(s, sep, i + 1, i + 1)
         ELSE SplitFrom(s, sep, start, i + 1)

\* s.split(sep)
Split(s, sep) == CHOOSE out \in {SplitFrom(v, sep, 1, 1) : v \in {s}} : TRUE

RECURSIVE JoinFrom(_, _, _)
\* the elements i.. of parts with sep between them
JoinFrom(parts, sep, i) ==
    IF i > Len(parts) THEN ""
    ELSE IF i = Len(parts) THEN parts[i]
    ELSE parts[i] \o sep \o JoinFrom(parts, sep, i + 1)

\* sep.join(parts)
Join(parts, sep) == CHOOSE out \in {JoinFrom(v, sep, 1) : v \in {parts}} : TRUE

IsAlpha(c) == c \in UpperSet \/ c \in LowerSet

RECURSIVE FindAlphaRuns(_, _, _)
\* the maximal runs of letters of length at least 3 in s from position i
\* on, left to right; the current run starts at position start
FindAlphaRuns(s, start, i) ==
    LET run == IF i - start >= 3 THEN <<SubSeq(s, start, i - 1)>> ELSE <<>>
    IN  IF i > Len(s) THEN run
        ELSE IF IsAlpha(CharAt(s, i))
             THEN FindAlphaRuns(s, start, i + 1)
             ELSE run \o FindAlphaRuns(s, i + 1, i + 1)

\* re.findall(r"[a-zA-Z]{3,}", s)
FindAll3Letters(s) == CHOOSE out \in {FindAlphaRuns(v, 1, 1) : v \in {s}} : TRUE

\* the set of elements of a sequence
Range(seq) == {seq[i] : i \in 1..Len(seq)}

\* every list holding each element of the set S once: the orders in which
\* list(set(...)) can enumerate S (the order depends on the string hash
\* seed of the process)
ListsOf(S) ==
    {f \in [1..Cardinality(S) -> S] : \A i, j \in 1..Cardinality(S) : f[i] = f[j] => i = j}

(***************************************************************************)
(* src/llm_sql.py: keyword extraction, condition builder, column           *)
(* sanitizer, SQL assembly and explanation.                                *)
(***************************************************************************)
stop_words ==
    {"show", "me", "all", "the", "tickets", "ticket",
     "with", "that", "are", "is", "of", "for", "in",
     "high", "medium", "low",
     "priority", "status", "open", "closed",
     "technical", "billing", "general",
     "today", "yesterday", "week", "month", "this", "last"}

\* the set(words) of _extract_text_keywords: the lower-cased letter runs
\* of length >= 3 that are no stop words
KeywordSet(question) ==
    {Lower(w) : w \in Range(FindAll3Letters(question))} \ stop_words

\* the lists _extract_text_keywords(question) can return: list(set(words))
\* in any enumeration order
_extract_text_keywords(question) == ListsOf(KeywordSet(question))

PriorityConditions(q) ==
    IF Contains(q, "high") THEN <<"priority = 'High'">>
    ELSE IF Contains(q, "medium") THEN <<"priority = 'Medium'">>
    ELSE IF Contains(q, "low") THEN <<"priority = 'Low'">>
    ELSE <<>>

CategoryConditions(q) ==
    (IF Contains(q, "technical") \/ Contains(q, "tech")
        THEN <<"category = 'Technical'">> ELSE <<>>)
    \o (IF Contains(q, "billing") \/ Contains(q, "payment") \/ Contains(q, "refund")
        THEN <<"category = 'Billing'">> ELSE <<>>)
    \o (IF Contains(q, "general") \/ Contains(q, "account") \/ Contains(q, "profile")
        THEN <<"category = 'General'">> ELSE <<>>)

StatusConditions(q) ==
    (IF Contains(q, "open") THEN <<"status = 'Open'">> ELSE <<>>)
    \o (IF Contains(q, "closed") \/ Contains(q, "resolved")
        THEN <<"status = 'Closed'">> ELSE <<>>)

DateConditions(q) ==
    IF Contains(q, "today") THEN <<"DATE(created_at) = CURDATE()">>
    ELSE IF Contains(q, "yesterday")
        THEN <<"DATE(created_at) = (CURDATE() - INTERVAL 1 DAY)">>
    ELSE IF Contains(q, "this week") \/ Contains(q, "last 7 days")
        THEN <<"created_at >= (CURDATE() - INTERVAL 7 DAY)">>
    ELSE IF Contains(q, "this month")
        THEN <<"created_at >= DATE_FORMAT(CURDATE(), '%Y-%m-01')">>
    ELSE <<>>

\* the free-text fragment built from the keyword list, or nothing when the
\* list is empty
TextConditions(keywords) ==
    IF Len(keywords) > 0
    THEN <<"(" \o Join([i \in 1..Len(keywords) |->
                          "LOWER(text) LIKE '%" \o keywords[i] \o "%'"], " OR ") \o ")">>
    ELSE <<>>

\* _build_conditions_from_question(question), where keywords is the list
\* its call of _extract_text_keywords(question) returned
_build_conditions_from_question(question, keywords) ==
    LET q == Lower(question)
    IN  PriorityConditions(q) \o CategoryConditions(q) \o StatusConditions(q)
        \o DateConditions(q) \o TextConditions(keywords)

FALLBACK_COLUMNS == "id, text, category, priority, status, created_at"

\* the forbidden set with the table name left out
forbidden_without_tickets == {"from", "where", "join", "limit"}

forbidden == {"from", "where", "join", "limit", "tickets"}

\* re.match(r"^[a-zA-Z0-9_() ]+$", p)
MatchesColumnPattern(p) ==
    /\ p # ""
    /\ \A i \in 1..Len(p) :
          \/ IsAlpha(CharAt(p, i))
          \/ CharAt(p, i) \in DigitSet
          \/ CharAt(p, i) \in {"_", "(", ")", " "}

_clean_columns_expression(raw) ==
    LET expr == Lower(Strip(raw))
        split == Split(expr, ",")
        parts == [i \in 1..Len(split) |-> Strip(split[i])]
    IN  IF Contains(expr, "count") THEN "COUNT(*)"
        ELSE IF /\ \A i \in 1..Len(parts) : MatchesColumnPattern(parts[i])
                /\ ~ \E f \in forbidden : Contains(expr, f)
             THEN Join(parts, ", ")
             ELSE FALLBACK_COLUMNS

\* is_count without the "how many" test
is_count_without_how_many(question, expr) ==
    \/ Contains(Lower(question), "count")
    \/ Contains(Lower(expr), "count(")

\* is_count of generate_sql_from_question; expr is the sanitized expression
is_count(question, expr) ==
    LET q_lower == Lower(question)
    IN  \/ Contains(q_lower, "how many")
        \/ Contains(q_lower, "count")
        \/ Contains(Lower(expr), "count(")

\* the assembly with LIMIT appended only to statements without a WHERE
AssembleSql_limit_without_where(count, expr, conditions) ==
    (IF count THEN "SELECT COUNT(*) AS count" ELSE "SELECT " \o expr)
    \o " FROM tickets"
    \o (IF Len(conditions) > 0 THEN " WHERE " \o Join(conditions, " AND ")
        ELSE IF ~count THEN " LIMIT 50" ELSE "")
    \o ";"

\* the statement generate_sql_from_question assembles from the intent, the
\* sanitized expression and the condition list
AssembleSql(count, expr, conditions) ==
    (IF count THEN "SELECT COUNT(*) AS count" ELSE "SELECT " \o expr)
    \o " FROM tickets"
    \o (IF Len(conditions) > 0 THEN " WHERE " \o Join(conditions, " AND ") ELSE "")
    \o (IF ~count THEN " LIMIT 50" ELSE "")
    \o ";"

\* generate_sql_from_question(question), where decoded is the text the
\* suggester produced (tokenizer.decode) and keywords the list the keyword
\* extractor returned
generate_sql_from_question(question, decoded, keywords) ==
    LET expr == _clean_columns_expression(decoded)
    IN  AssembleSql(is_count(question, expr), expr,
                    _build_conditions_from_question(question, keywords))

explain_sql(sql) ==
    LET sql_lower == Lower(sql)
        Phrase(fragment, phrase) ==
            IF Contains(sql_lower, fragment) THEN <<phrase>> ELSE <<>>
        explanation ==
            (IF Contains(sql_lower, "count(*)")
                THEN <<"This query counts the number of tickets">>
                ELSE <<"This query retrieves ticket details">>)
            \o Phrase("priority = 'high'", "with high priority")
            \o Phrase("priority = 'medium'", "with medium priority")
            \o Phrase("priority = 'low'", "with low priority")
            \o Phrase("category = 'technical'", "related to technical issues")
            \o Phrase("category = 'billing'", "related to billing issues")
            \o Phrase("category = 'general'", "related to general issues")
            \o Phrase("status = 'open'", "that are currently open")
            \o Phrase("status = 'closed'", "that are closed")
            \o Phrase("limit", "and limits the results to 50 records")
    IN  Capitalize(Join(explanation, " ")) \o "."

(***************************************************************************)
(* State.                                                                  *)
(*   question .. step   one evaluation of the sanitizer, or of             *)
(*                      generate_sql_from_question followed by explain_sql *)
(*   the rest           the serving process: the module globals of         *)
(*                      llm_sql.py, the database sessions, and every       *)
(*                      request's position in get_db / nl_query            *)
(***************************************************************************)
VARIABLES
    question,       \* the question text
    decoded,        \* the suggester's output text (tokenizer.decode)
    keywords,       \* the list _extract_text_keywords returned
    expr,           \* the sanitized column expression
    sql,            \* the assembled statement
    explanation,    \* the explanation of the statement
    step,           \* "input", "sanitized", "generated" or "explained"
    _tokenizer,     \* llm_sql._tokenizer: 0 for None, else the load that made it
    _model,         \* llm_sql._model: 0 for None, else the load that made it
    sessions,       \* every Session that SessionLocal() made: "open" or "closed"
    pc,             \* per request: the statement it is at
    req,            \* per request: req.question
    db,             \* per request: the Session get_db yielded (0 before)
    loads,          \* how many times get_model loaded tokenizer and model
    got,            \* per request: the pair get_model returned, <<0, 0>>
                    \* outside generate_sql_from_question
    sqlOf,          \* per request: the sql local of nl_query ("" outside it)
    explOf,         \* per request: the explanation local of nl_query ("" outside it)
    explRaised,     \* per request: explain_sql raised
    executed,       \* per request: "no", "ok" or "failed" (db.execute)
    response        \* per request: the HTTP response ([status |-> 0] before)

pureVars == <<question, decoded, keywords, expr, sql, explanation, step>>
svcVars == <<_tokenizer, _model, sessions, pc, req, db, loads, got,
             sqlOf, explOf, explRaised, executed, response>>
vars == <<question, decoded, keywords, expr, sql, explanation, step,
          _tokenizer, _model, sessions, pc, req, db, loads, got,
          sqlOf, explOf, explRaised, executed, response>>

Requests == 1..MaxRequests

(***************************************************************************)
(* Inputs.                                                                 *)
(***************************************************************************)
\* pieces suggester outputs are composed of: column names, separators,
\* the clause words in several spellings, and "count"
Pieces == {"id", ", ", " ", "From", "where", "join", "LIMIT", "tickets", "count", ";"}

RECURSIVE ComposedExprs(_)
\* the concatenations of at most n pieces
ComposedExprs(n) ==
    IF n = 0 THEN {""}
    ELSE ComposedExprs(n - 1) \cup {e \o p : e \in ComposedExprs(n - 1), p \in Pieces}

CandidateExprs == ComposedExprs(MaxPieces) \cup {"DROP TABLE tickets", "id,,text"}

\* words questions are composed of: count phrases, one keyword of every
\* rule group, and words that are no rule keyword
Words == {"How many", "count", "open", "resolved", "high", "low", "tech",
          "today", "limit", "printer"}

RECURSIVE ComposedQuestions(_)
\* at most n words, separated by single spaces
ComposedQuestions(n) ==
    IF n = 0 THEN {""}
    ELSE ComposedQuestions(n - 1)
         \cup {IF q = "" THEN w ELSE q \o " " \o w :
                  q \in ComposedQuestions(n - 1), w \in Words}

ExampleQuestions ==
    {"how many tickets are open", "show me tickets with high priority from today"}

Questions == ComposedQuestions(MaxWords) \cup ExampleQuestions

\* suggester outputs tried with every question
SuggesterOutputs == {"id, text", "COUNT(*)", "status from tickets", "Priority", "account", ""}

(***************************************************************************)
(* The column sanitizer applied to every candidate expression.             *)
(***************************************************************************)
\* the serving process before any request
SvcStart ==
    /\ _tokenizer = 0 /\ _model = 0
    /\ sessions = <<>>
    /\ pc = [r \in Requests |-> "get_db"]
    /\ db = [r \in Requests |-> 0]
    /\ loads = 0
    /\ got = [r \in Requests |-> <<0, 0>>]
    /\ sqlOf = [r \in Requests |-> ""]
    /\ explOf = [r \in Requests |-> ""]
    /\ explRaised = [r \in Requests |-> FALSE]
    /\ executed = [r \in Requests |-> "no"]
    /\ response = [r \in Requests |-> [status |-> 0]]

InitSan ==
    /\ decoded \in CandidateExprs
    /\ SvcStart /\ req = [r \in Requests |-> ""]
    /\ question = "" /\ keywords = <<>> /\ expr = "" /\ sql = ""
    /\ explanation = "" /\ step = "input"

Sanitize ==
    /\ step = "input"
    /\ expr' = _clean_columns_expression(decoded)
    /\ step' = "sanitized"
    /\ UNCHANGED <<question, decoded, keywords, sql, explanation>>
    /\ UNCHANGED svcVars

NextSan == Sanitize

SpecSan == InitSan /\ [][NextSan]_vars

(***************************************************************************)
(* generate_sql_from_question and explain_sql applied to every question    *)
(* and suggester output.                                                   *)
(***************************************************************************)
InitGen ==
    /\ question \in Questions
    /\ decoded \in SuggesterOutputs
    /\ SvcStart /\ req = [r \in Requests |-> ""]
    /\ keywords = <<>> /\ expr = "" /\ sql = ""
    /\ explanation = "" /\ step = "input"

Generate ==
    /\ step = "input"
    /\ \E kws \in _extract_text_keywords(question) :
          /\ keywords' = kws
          /\ sql' = generate_sql_from_question(question, decoded, kws)
    /\ expr' = _clean_columns_expression(decoded)
    /\ step' = "generated"
    /\ UNCHANGED <<question, decoded, explanation>>
    /\ UNCHANGED svcVars

Explain ==
    /\ step = "generated"
    /\ explanation' = explain_sql(sql)
    /\ step' = "explained"
    /\ UNCHANGED <<question, decoded, keywords, expr, sql>>
    /\ UNCHANGED svcVars

NextGen == Generate \/ Explain

SpecGen == InitGen /\ [][NextGen]_vars

(***************************************************************************)
(* The serving process: src/database.py get_db, src/llm_sql.py get_model   *)
(* and src/app.py nl_query.  FastAPI runs the handler of each request in   *)
(* its own worker thread, so the statements of different requests          *)
(* interleave.  The locals of a function are reset when it returns or      *)
(* raises.                                                                 *)
(***************************************************************************)
\* questions requests carry: empty, whitespace only, and a real question
SvcQuestions == {"", " \t", "open printer"}

\* what the suggester may answer
SvcOutputs == {"id, status"}

\* what the database may answer to a statement
DbResults(statement) ==
    IF StartsWith(statement, "SELECT COUNT(*) AS count")
    THEN {[columns |-> <<"count">>, rows |-> << <<2>> >>]}
    ELSE {[columns |-> <<"id", "status">>, rows |-> << <<7, "Open">> >>]}

GENERIC_EXPLANATION == "This query retrieves ticket data based on the given conditions."

\* raise HTTPException(status_code=400, detail=...)
HTTPException(detail) == [status |-> 400, detail |-> detail]

\* dict(zip(columns, row))
RowDict(columns, row) ==
    [c \in Range(columns) |-> row[CHOOSE j \in 1..Len(columns) : columns[j] = c]]

\* the body nl_query returns
NLQueryResponse(statement, expl, result) ==
    LET rows == [i \in 1..Len(result.rows) |-> RowDict(result.columns, result.rows[i])]
    IN  [status |-> 200, sql |-> statement, explanation |-> expl,
         columns |-> result.columns, rows |-> rows,
         insights |-> [total_records |-> Len(rows)]]

PureIdle ==
    /\ question = "" /\ decoded = "" /\ keywords = <<>> /\ expr = "" /\ sql = ""
    /\ explanation = "" /\ step = "input"

InitSvc ==
    /\ PureIdle
    /\ SvcStart
    /\ req \in [Requests -> SvcQuestions]

\* the handler raises: the response is the error, and the dependency's
\* finally block is what remains
Raise(r, detail) ==
    /\ response' = [response EXCEPT ![r] = HTTPException(detail)]
    /\ pc' = [pc EXCEPT ![r] = "teardown"]

Goto(r, label) == pc' = [pc EXCEPT ![r] = label]

\* get_db up to its yield: db = SessionLocal()
get_db_open(r) ==
    /\ pc[r] = "get_db"
    /\ UNCHANGED pureVars
    /\ sessions' = Append(sessions, "open")
    /\ db' = [db EXCEPT ![r] = Len(sessions) + 1]
    /\ Goto(r, "check_empty")
    /\ UNCHANGED <<_tokenizer, _model, req, loads, got, sqlOf, explOf,
                   explRaised, executed, response>>

\* get_db without try/finally: db.close() runs only when the handler
\* returned
get_db_close_after_return(r) ==
    /\ pc[r] = "teardown"
    /\ UNCHANGED pureVars
    /\ response[r].status = 200
    /\ sessions' = [sessions EXCEPT ![db[r]] = "closed"]
    /\ Goto(r, "closed")
    /\ UNCHANGED <<_tokenizer, _model, req, db, loads, got, sqlOf,
                   explOf, explRaised, executed, response>>

\* get_db after its yield: finally: db.close()
get_db_close(r) ==
    /\ pc[r] = "teardown"
    /\ UNCHANGED pureVars
    /\ sessions' = [sessions EXCEPT ![db[r]] = "closed"]
    /\ Goto(r, "closed")
    /\ UNCHANGED <<_tokenizer, _model, req, db, loads, got, sqlOf,
                   explOf, explRaised, executed, response>>

\* the emptiness test without strip(): if not req.question
nl_query_check_empty_unstripped(r) ==
    /\ pc[r] = "check_empty"
    /\ UNCHANGED pureVars
    /\ IF req[r] = ""
       THEN Raise(r, "Question cannot be empty")
       ELSE Goto(r, "get_model") /\ UNCHANGED response
    /\ UNCHANGED <<_tokenizer, _model, sessions, req, db, loads, got,
                   sqlOf, explOf, explRaised, executed>>

\* if not req.question.strip(): raise HTTPException(400, ...)
nl_query_check_empty(r) ==
    /\ pc[r] = "check_empty"
    /\ UNCHANGED pureVars
    /\ IF Strip(req[r]) = ""
       THEN Raise(r, "Question cannot be empty")
       ELSE Goto(r, "get_model") /\ UNCHANGED response
    /\ UNCHANGED <<_tokenizer, _model, sessions, req, db, loads, got,
                   sqlOf, explOf, explRaised, executed>>

\* get_model, statement by statement ---------------------------------------

\* if _tokenizer is None ...
get_model_check_tokenizer(r) ==
    /\ pc[r] = "gm_check_tokenizer"
    /\ UNCHANGED pureVars
    /\ IF _tokenizer = 0
       THEN Goto(r, "gm_load_tokenizer")
       ELSE Goto(r, "gm_check_model")
    /\ UNCHANGED <<_tokenizer, _model, sessions, req, db, loads, got, sqlOf, explOf,
                   explRaised, executed, response>>

\* ... or _model is None
get_model_check_model(r) ==
    /\ pc[r] = "gm_check_model"
    /\ UNCHANGED pureVars
    /\ IF _model = 0
       THEN Goto(r, "gm_load_tokenizer")
       ELSE Goto(r, "gm_return_tokenizer")
    /\ UNCHANGED <<_tokenizer, _model, sessions, req, db, loads, got,
                   sqlOf, explOf, explRaised, executed, response>>

\* _tokenizer = T5Tokenizer.from_pretrained(MODEL_NAME), which returns a new
\* tokenizer or raises (caught by nl_query's first try)
get_model_load_tokenizer(r) ==
    /\ pc[r] = "gm_load_tokenizer"
    /\ UNCHANGED pureVars
    /\ \/ /\ _tokenizer' = r
          /\ Goto(r, "gm_load_model")
          /\ UNCHANGED response
       \/ /\ Raise(r, "LLM SQL error: tokenizer not loaded")
                /\ UNCHANGED _tokenizer
    /\ UNCHANGED <<_model, sessions, req, db, loads, got, sqlOf, explOf, explRaised,
                   executed>>

\* _model = T5ForConditionalGeneration.from_pretrained(MODEL_NAME)
get_model_load_model(r) ==
    /\ pc[r] = "gm_load_model"
    /\ UNCHANGED pureVars
    /\ \/ /\ _model' = r
          /\ loads' = loads + 1
          /\ Goto(r, "gm_return_tokenizer")
          /\ UNCHANGED response
       \/ /\ Raise(r, "LLM SQL error: model not loaded")
                /\ UNCHANGED <<_model, loads>>
    /\ UNCHANGED <<_tokenizer, sessions, req, db, got, sqlOf, explOf, explRaised,
                   executed>>

\* return _tokenizer, _model -- the read of _tokenizer
get_model_return_tokenizer(r) ==
    /\ pc[r] = "gm_return_tokenizer"
    /\ UNCHANGED pureVars
    /\ got' = [got EXCEPT ![r] = <<_tokenizer, 0>>]
    /\ Goto(r, "gm_return_model")
    /\ UNCHANGED <<_tokenizer, _model, sessions, req, db, loads, sqlOf,
                   explOf, explRaised, executed, response>>

\* return _tokenizer, _model -- the read of _model
get_model_return_model(r) ==
    /\ pc[r] = "gm_return_model"
    /\ UNCHANGED pureVars
    /\ got' = [got EXCEPT ![r] = <<got[r][1], _model>>]
    /\ Goto(r, "generate")
    /\ UNCHANGED <<_tokenizer, _model, sessions, req, db, loads, sqlOf,
                   explOf, explRaised, executed, response>>

\* get_model run without interruption, as generate_sql_from_question calls
\* it inside nl_query's first try
nl_query_get_model(r) ==
    /\ pc[r] = "get_model"
    /\ UNCHANGED pureVars
    /\ IF _tokenizer = 0 \/ _model = 0
       THEN \/ /\ _tokenizer' = r /\ _model' = r
               /\ loads' = loads + 1
               /\ got' = [got EXCEPT ![r] = <<r, r>>]
               /\ Goto(r, "generate")
               /\ UNCHANGED response
            \/ /\ Raise(r, "LLM SQL error: tokenizer not loaded")
               /\ UNCHANGED <<_tokenizer, _model, loads, got>>
            \/ /\ _tokenizer' = r
               /\ Raise(r, "LLM SQL error: model not loaded")
               /\ UNCHANGED <<_model, loads, got>>
       ELSE /\ got' = [got EXCEPT ![r] = <<_tokenizer, _model>>]
            /\ Goto(r, "generate")
            /\ UNCHANGED <<_tokenizer, _model, loads, response>>
    /\ UNCHANGED <<sessions, req, db, sqlOf, explOf, explRaised, executed>>

\* the rest of generate_sql_from_question inside nl_query's first try: the
\* inference yields some text, or raises; the statement is assembled
nl_query_generate(r) ==
    /\ pc[r] = "generate"
    /\ UNCHANGED pureVars
    /\ \/ /\ Raise(r, "LLM SQL error: inference failed")
          /\ UNCHANGED sqlOf
       \/ /\ Goto(r, "check_select")
          /\ UNCHANGED response
          /\ \E d \in SvcOutputs : \E kws \in _extract_text_keywords(req[r]) :
                sqlOf' = [sqlOf EXCEPT ![r] = generate_sql_from_question(req[r], d, kws)]
    /\ got' = [got EXCEPT ![r] = <<0, 0>>]
    /\ UNCHANGED <<_tokenizer, _model, sessions, req, db, loads, explOf, explRaised,
                   executed>>

\* if not sql.lower().strip().startswith("select"): raise HTTPException
nl_query_check_select(r) ==
    /\ pc[r] = "check_select"
    /\ UNCHANGED pureVars
    /\ \E lowered \in {Lower(sqlOf[r])} :
          IF ~StartsWith(Strip(lowered), "select")
          THEN Raise(r, "Only SELECT queries are allowed")
               /\ sqlOf' = [sqlOf EXCEPT ![r] = ""]
          ELSE Goto(r, "explain") /\ UNCHANGED <<response, sqlOf>>
    /\ UNCHANGED <<_tokenizer, _model, sessions, req, db, loads, got,
                   explOf, explRaised, executed>>

\* the explanation step with the exception turned into an error response
nl_query_explain_raising(r) ==
    /\ pc[r] = "explain"
    /\ UNCHANGED pureVars
    /\ \/ /\ explRaised' = [explRaised EXCEPT ![r] = TRUE]
          /\ Raise(r, "Explanation error")
          /\ UNCHANGED explOf
       \/ /\ explOf' = [explOf EXCEPT ![r] = explain_sql(sqlOf[r])]
          /\ Goto(r, "execute")
          /\ UNCHANGED <<explRaised, response>>
    /\ UNCHANGED <<_tokenizer, _model, sessions, req, db, loads, got,
                   sqlOf, executed>>

\* try: explanation = explain_sql(sql)  except Exception: the fixed string
nl_query_explain(r) ==
    /\ pc[r] = "explain"
    /\ UNCHANGED pureVars
    /\ Goto(r, "execute")
    /\ \/ /\ explRaised' = [explRaised EXCEPT ![r] = TRUE]
          /\ explOf' = [explOf EXCEPT ![r] = GENERIC_EXPLANATION]
       \/ /\ UNCHANGED explRaised
          /\ explOf' = [explOf EXCEPT ![r] = explain_sql(sqlOf[r])]
    /\ UNCHANGED <<_tokenizer, _model, sessions, req, db, loads, got,
                   sqlOf, executed, response>>

\* try: db.execute(text(sql)) ...  except Exception: raise HTTPException;
\* then insights and the returned body
nl_query_execute(r) ==
    /\ pc[r] = "execute"
    /\ UNCHANGED pureVars
    /\ \/ /\ executed' = [executed EXCEPT ![r] = "failed"]
          /\ Raise(r, "SQL execution error: statement failed")
       \/ /\ executed' = [executed EXCEPT ![r] = "ok"]
          /\ Goto(r, "teardown")
          /\ \E result \in DbResults(sqlOf[r]) :
                response' = [response EXCEPT ![r] =
                                NLQueryResponse(sqlOf[r], explOf[r], result)]
    /\ sqlOf' = [sqlOf EXCEPT ![r] = ""]
    /\ explOf' = [explOf EXCEPT ![r] = ""]
    /\ UNCHANGED <<_tokenizer, _model, sessions, req, db, loads, got,
                   explRaised>>

\* one step of request r
RequestStep(r) ==
    \/ get_db_open(r)
    \/ nl_query_check_empty(r)
    \/ nl_query_get_model(r)
    \/ nl_query_generate(r)
    \/ nl_query_check_select(r)
    \/ nl_query_explain(r)
    \/ nl_query_execute(r)
    \/ get_db_close(r)

NextSvc ==
    \/ \E r \in Requests : get_db_open(r)
    \/ \E r \in Requests : nl_query_check_empty(r)
    \/ \E r \in Requests : nl_query_get_model(r)
    \/ \E r \in Requests : nl_query_generate(r)
    \/ \E r \in Requests : nl_query_check_select(r)
    \/ \E r \in Requests : nl_query_explain(r)
    \/ \E r \in Requests : nl_query_execute(r)
    \/ \E r \in Requests : get_db_close(r)

\* the requests served concurrently, each from get_db to the close of its
\* session
SpecSvc == InitSvc /\ [][NextSvc]_vars

\* every request's worker thread keeps running: none of its steps waits
\* for another request, and every call it makes returns or raises
LiveSvc == SpecSvc /\ \A r \in Requests : WF_vars(RequestStep(r))

\* concurrent requests that have a session and a non-empty question, at
\* their call of get_model
InitModel ==
    /\ PureIdle
    /\ _tokenizer = 0 /\ _model = 0 /\ loads = 0
    /\ sessions = [r \in Requests |-> "open"]
    /\ db = [r \in Requests |-> r]
    /\ req = [r \in Requests |-> "open printer"]
    /\ pc = [r \in Requests |-> "get_model"]
    /\ got = [r \in Requests |-> <<0, 0>>]
    /\ sqlOf = [r \in Requests |-> ""]
    /\ explOf = [r \in Requests |-> ""]
    /\ explRaised = [r \in Requests |-> FALSE]
    /\ executed = [r \in Requests |-> "no"]
    /\ response = [r \in Requests |-> [status |-> 0]]

\* generate_sql_from_question calls get_model
get_model_call(r) ==
    /\ pc[r] = "get_model"
    /\ UNCHANGED pureVars
    /\ Goto(r, "gm_check_tokenizer")
    /\ UNCHANGED <<_tokenizer, _model, sessions, req, db, loads, got,
                   sqlOf, explOf, explRaised, executed, response>>

NextModel ==
    \/ \E r \in Requests : get_model_call(r)
    \/ \E r \in Requests : get_model_check_tokenizer(r)
    \/ \E r \in Requests : get_model_check_model(r)
    \/ \E r \in Requests : get_model_load_tokenizer(r)
    \/ \E r \in Requests : get_model_load_model(r)
    \/ \E r \in Requests : get_model_return_tokenizer(r)
    \/ \E r \in Requests : get_model_return_model(r)

\* the calls of get_model by concurrent requests, statement by statement
SpecModel == InitModel /\ [][NextModel]_vars

(***************************************************************************)
(* Claims about the sanitizer, the generator and the explanation.          *)
(***************************************************************************)
\* the clause words of claim C1
ClauseWords == {"where", "from", "join", "limit", "tickets"}

HasClauseWord(e) == \E w \in ClauseWords : Contains(Lower(e), w)

\* C1 (as stated): every candidate expression containing, in any case,
\* "where", "from", "join", "limit" or "tickets" is rejected by the
\* sanitizer, which returns the fallback column list.
C1_ClauseWordFallsBack ==
    (step = "sanitized" /\ HasClauseWord(decoded)) => expr = FALLBACK_COLUMNS

\* C1 (amended): every candidate expression containing one of the clause
\* words and not containing "count" (in any case) is rejected with the
\* fallback column list; one that contains "count" yields COUNT(*).
C1_ClauseWordFallsBackUnlessCount ==
    (step = "sanitized" /\ HasClauseWord(decoded)) =>
        IF Contains(Lower(decoded), "count")
        THEN expr = "COUNT(*)"
        ELSE expr = FALLBACK_COLUMNS

\* an expression of well-formed parts is rejected for its clause word alone
C1_Witness ==
    /\ step = "sanitized"
    /\ decoded = "id, From"
    /\ expr = FALLBACK_COLUMNS

\* C2: the question "how many tickets are open" yields exactly
\* SELECT COUNT(*) AS count FROM tickets WHERE status = 'Open';
C2_HowManyOpenExample ==
    (step # "input" /\ question = "how many tickets are open") =>
        sql = "SELECT COUNT(*) AS count FROM tickets WHERE status = 'Open';"

\* C3: for a question containing "how many" (in any case) the statement
\* starts with SELECT COUNT(*) AS count FROM tickets and has no LIMIT clause.
C3_HowManyIsCount ==
    (step # "input" /\ Contains(Lower(question), "how many")) =>
        /\ StartsWith(sql, "SELECT COUNT(*) AS count FROM tickets")
        /\ ~EndsWith(sql, "LIMIT 50;")
        /\ ~Contains(sql, "LIMIT")

\* a "how many" question whose suggester output is a plain column list and
\* whose free text holds the word limit
C3_Witness ==
    /\ step = "generated"
    /\ question = "How many limit"
    /\ decoded = "id, text"
    /\ StartsWith(sql, "SELECT COUNT(*) AS count FROM tickets WHERE (LOWER(text) LIKE")

NonCountQuestion(q) ==
    ~Contains(Lower(q), "how many") /\ ~Contains(Lower(q), "count")

\* C4 (as stated): for a question containing neither "how many" nor
\* "count", and every suggester output, the statement ends with LIMIT 50;
C4_NonCountQuestionLimited ==
    (step # "input" /\ NonCountQuestion(question)) => EndsWith(sql, " LIMIT 50;")

\* C4 (amended): for a question containing neither "how many" nor "count",
\* and every suggester output that does not contain "count" (in any case),
\* the statement ends with LIMIT 50; with a suggester output containing
\* "count" the statement is a count and has no LIMIT clause.
C4_NonCountLimitedUnlessCountSuggested ==
    (step # "input" /\ NonCountQuestion(question)) =>
        IF Contains(Lower(decoded), "count")
        THEN StartsWith(sql, "SELECT COUNT(*) AS count FROM tickets")
             /\ ~EndsWith(sql, " LIMIT 50;")
        ELSE EndsWith(sql, " LIMIT 50;")

\* a non-count question with conditions and a rejected suggester output
C4_Witness ==
    /\ step = "generated"
    /\ question = "open printer"
    /\ decoded = "status from tickets"
    /\ sql = "SELECT " \o FALLBACK_COLUMNS
             \o " FROM tickets WHERE status = 'Open' AND (LOWER(text) LIKE '%printer%') LIMIT 50;"

\* the recognized keywords of the condition builder, by rule group
GroupKeywords ==
    [priority |-> {"high", "medium", "low"},
     category |-> {"technical", "tech", "billing", "payment", "refund",
                   "general", "account", "profile"},
     status   |-> {"open", "closed", "resolved"},
     date     |-> {"today", "yesterday", "this week", "last 7 days", "this month"}]

\* the rule group that builds a fragment
GroupOfFragment(c) ==
    IF StartsWith(c, "priority = ") THEN "priority"
    ELSE IF StartsWith(c, "category = ") THEN "category"
    ELSE IF StartsWith(c, "status = ") THEN "status"
    ELSE IF StartsWith(c, "DATE(created_at)") \/ StartsWith(c, "created_at") THEN "date"
    ELSE "text"

\* C5: for every recognized keyword K, every fragment the condition builder
\* returns for the question from a rule group other than K's is, as the
\* same string, in every list it can return for the question with K added.
C5_Monotonic ==
    step # "input" =>
        LET conditions == _build_conditions_from_question(question, keywords)
        IN  \A g \in DOMAIN GroupKeywords : \A K \in GroupKeywords[g] :
              \A i \in 1..Len(conditions) :
                GroupOfFragment(conditions[i]) # g =>
                    \A kws \in _extract_text_keywords(question \o " " \o K) :
                        conditions[i] \in
                            Range(_build_conditions_from_question(question \o " " \o K, kws))

\* the fragments of the explanation's vocabulary
IsKnownFragment(c) == GroupOfFragment(c) \in {"priority", "category", "status"}

\* C10: the explanation of an assembled statement equals the explanation of
\* the same statement assembled without its date and free-text fragments.
C10_ExplanationOmitsDateAndText ==
    step = "explained" =>
        explanation =
            explain_sql(AssembleSql(is_count(question, expr), expr,
                SelectSeq(_build_conditions_from_question(question, keywords),
                          IsKnownFragment)))

(***************************************************************************)
(* Claims about the serving process.                                       *)
(***************************************************************************)
ErrorFields == {"status", "detail"}
BodyFields == {"status", "sql", "explanation", "columns", "rows", "insights"}

StageErrors ==
    {"Question cannot be empty",
     "LLM SQL error: tokenizer not loaded",
     "LLM SQL error: model not loaded",
     "LLM SQL error: inference failed",
     "Only SELECT queries are allowed",
     "SQL execution error: statement failed"}

C6_State(r) ==
    /\ executed[r] # "no" => Strip(req[r]) # ""
    /\ response[r].status \in {0, 200, 400}
    /\ response[r].status = 400 =>
          /\ DOMAIN response[r] = ErrorFields
          /\ response[r].detail \in StageErrors
          /\ pc[r] \in {"teardown", "closed"}
          /\ executed[r] \in {"no", "failed"}
    /\ executed[r] = "failed" =>
          response[r] = HTTPException("SQL execution error: statement failed")
    /\ response[r].status = 200 =>
          /\ executed[r] = "ok"
          /\ DOMAIN response[r] = BodyFields
          /\ StartsWith(Lower(response[r].sql), "select")
    /\ (Strip(req[r]) = "" /\ pc[r] \notin {"get_db", "check_empty"}) =>
          /\ response[r] = HTTPException("Question cannot be empty")
          /\ executed[r] = "no"

C6_Step(r) ==
    /\ executed'[r] # executed[r] =>
          /\ pc[r] = "execute"
          /\ Strip(req[r]) # ""
          /\ sqlOf[r] # ""
          /\ StartsWith(Strip(Lower(sqlOf[r])), "select")
    /\ response[r].status # 0 => response'[r] = response[r]
    /\ (response[r].status = 0 /\ response'[r].status = 400) =>
          /\ pc'[r] = "teardown"
          /\ sqlOf'[r] = sqlOf[r] \/ sqlOf'[r] = ""

\* C6: db.execute runs only after the question was found non-empty, the
\* statement was generated and was checked to start with select; a failure
\* at a stage ends the request there with a 400 response that has no body
\* field; a 200 response is returned only after a successful execution.
C6_ExecuteOnlyAfterChecks ==
    /\ [](\A r \in Requests : C6_State(r))
    /\ [][\A r \in Requests : C6_Step(r)]_vars

\* one request answered with the body, another failed at the execution, and
\* a whitespace-only question was rejected
C6_Witness ==
    \E r1, r2 \in Requests :
        /\ response[r1].status = 200 /\ executed[r1] = "ok"
        /\ req[r2] = " \t" /\ response[r2] = HTTPException("Question cannot be empty")

\* C7: when explain_sql raises, the request goes on to db.execute with the
\* fixed generic explanation, a 200 response carries that string, and a 400
\* response of such a request comes from the execution; no error response
\* is due to the explanation.
C7_ExplanationFailureAbsorbed ==
    \A r \in Requests :
        /\ response[r].status = 400 => response[r].detail \in StageErrors
        /\ explRaised[r] =>
              /\ pc[r] \in {"execute", "teardown", "closed"}
              /\ pc[r] = "execute" =>
                    explOf[r] = GENERIC_EXPLANATION /\ response[r].status = 0
              /\ pc[r] # "execute" => executed[r] # "no"
              /\ response[r].status = 200 =>
                    response[r].explanation = GENERIC_EXPLANATION
              /\ response[r].status = 400 =>
                    response[r].detail = "SQL execution error: statement failed"

\* explain_sql raised and the request was answered with the body
C7_Witness ==
    \E r \in Requests :
        /\ explRaised[r]
        /\ response[r].status = 200
        /\ response[r].explanation = GENERIC_EXPLANATION
        /\ response[r].insights.total_records = 1

\* C8: under every interleaving the load is performed once, and the calls
\* that returned hold the same pair, tokenizer and model of that one load.
C8_LoadedOnce ==
    /\ loads <= 1
    /\ \A r1, r2 \in Requests :
          (pc[r1] = "generate" /\ pc[r2] = "generate") =>
              /\ got[r1] = got[r2]
              /\ got[r1][1] = got[r1][2]

InHandler(r) == pc[r] \notin {"get_db", "teardown", "closed"}

C9_State ==
    /\ \A r \in Requests :
          /\ InHandler(r) => (db[r] # 0 /\ sessions[db[r]] = "open")
          /\ pc[r] = "get_db" => db[r] = 0
          /\ pc[r] = "closed" => sessions[db[r]] = "closed"
    /\ \A r1, r2 \in Requests :
          (r1 # r2 /\ db[r1] # 0) => db[r1] # db[r2]

\* C9: the session of a request is opened before its handler runs and is
\* open while it runs, no two requests hold the same session, and every
\* request, however it ends, reaches the close of its session.
C9_SessionScoped ==
    /\ []C9_State
    /\ <>(\A r \in Requests :
             pc[r] = "closed" /\ db[r] # 0 /\ sessions[db[r]] = "closed")

\* a request that was answered with the body and one that failed, both with
\* their own session closed
C9_Witness ==
    \E r1, r2 \in Requests :
        /\ pc[r1] = "closed" /\ response[r1].status = 200
        /\ pc[r2] = "closed" /\ response[r2].status = 400
        /\ db[r1] # db[r2]
        /\ sessions[db[r1]] = "closed" /\ sessions[db[r2]] = "closed"

====
